---- MODULE Spec2Model ----
(***************************************************************************)
(* Control-and-dispatch core of the monitoring agent (src/src/main.c):     *)
(* the named-pipe command channel, the parsing of one payload into metric  *)
(* names, their resolution against the static registry, the status file    *)
(* and the periodic update loop.                                           *)
(*                                                                         *)
(* Strings of the program are sequences of one-character strings, so that  *)
(* strtok, trim_whitespace and strcmp are computed character by character. *)
(***************************************************************************)
EXTENDS Integers, Sequences, FiniteSets, TLC

\* ------------------------------------------------------------ constants

BUFFER_SIZE == 256
MAX_METRICS == 10
FIFO_MODE == 438
EXIT_SUCCESS == "EXIT_SUCCESS"
EXIT_FAILURE == "EXIT_FAILURE"

NULL == "NULL"

\* ------------------------------------------------------------ bounds

\* Largest number of comma-separated fields of an enumerated payload.
MaxFields == 3
\* The cycle counter of the monitoring loop saturates here.
MaxCycles == 1

\* ------------------------------------------------------------ strings

Min(a, b) == IF a < b THEN a ELSE b

cpu == <<"c", "p", "u">>
memory == <<"m", "e", "m", "o", "r", "y">>
disk == <<"d", "i", "s", "k">>
one == <<"1">>
comma == ","

\* isspace() of the C locale (the vertical tab has no TLA+ escape and is
\* left out; no payload of the model holds one).
isspace(c) == c \in {" ", "\t", "\n", "\f", "\r"}

\* The first loop of trim_whitespace: advance str over leading whitespace.
RECURSIVE skip_leading(_)
skip_leading(str) ==
    IF str # <<>> /\ isspace(Head(str)) THEN skip_leading(Tail(str)) ELSE str

\* The second loop of trim_whitespace: move end back over trailing
\* whitespace, never below the first character.
RECURSIVE trim_end(_, _)
trim_end(str, end) ==
    IF end > 1 /\ isspace(str[end]) THEN trim_end(str, end - 1) ELSE end

\* trim_whitespace without its second loop: trailing whitespace stays.
trim_whitespace_leading(str) == skip_leading(str)

trim_whitespace(str) ==
    LET s == skip_leading(str)
    IN  IF s = <<>> THEN s ELSE SubSeq(s, 1, trim_end(s, Len(s)))

\* strtok(s, ","): skip the delimiters in front, then cut at the next one.
\* The result is the null pointer when nothing but delimiters is left, and
\* otherwise the token and the rest of the string after the delimiter that
\* ended it.
\* The delimiters in front taken to be commas and whitespace.
RECURSIVE skip_delims_blank(_)
skip_delims_blank(s) ==
    IF s # <<>> /\ (Head(s) = comma \/ isspace(Head(s)))
    THEN skip_delims_blank(Tail(s))
    ELSE s

RECURSIVE skip_delims(_)
skip_delims(s) ==
    IF s # <<>> /\ Head(s) = comma THEN skip_delims(Tail(s)) ELSE s

RECURSIVE token_end(_, _)
token_end(s, k) ==
    IF k <= Len(s) /\ s[k] # comma THEN token_end(s, k + 1) ELSE k

strtok(s) ==
    LET t == skip_delims(s)
    IN  IF t = <<>> THEN [null |-> TRUE, token |-> <<>>, rest |-> <<>>]
        ELSE LET k == token_end(t, 1)
             IN  [null |-> FALSE,
                  token |-> SubSeq(t, 1, k - 1),
                  rest |-> SubSeq(t, k + 1, Len(t))]

\* The while loop of parse_metrics: output holds the tokens stored so far.
RECURSIVE parse_loop(_, _, _)
parse_loop(tok, output, max_metrics) ==
    IF ~tok.null /\ Len(output) < max_metrics
    THEN parse_loop(strtok(tok.rest),
                    Append(output, trim_whitespace(tok.token)),
                    max_metrics)
    ELSE output

\* parse_metrics without the count < max_metrics test of its loop.
parse_metrics_unlimited(input, max_metrics) ==
    parse_loop(strtok(input), <<>>, BUFFER_SIZE)

\* parse_metrics: strtok(input_copy, ","), then the loop.
parse_metrics(input, max_metrics) == parse_loop(strtok(input), <<>>, max_metrics)

\* Every token of a payload, as strtok and trim_whitespace deliver them when
\* no limit cuts the loop short (a buffer holds fewer than BUFFER_SIZE tokens).
all_tokens(input) == parse_loop(strtok(input), <<>>, BUFFER_SIZE)

\* ------------------------------------------------------------ registry

\* The static registry all_metrics of metrics.h: name and update callback.
\* The array's terminating entry (name == NULL) is the end of the sequence.
all_metrics ==
    << [name |-> cpu, update_function |-> "update_cpu_gauge"],
       [name |-> memory, update_function |-> "update_memory_gauge"] >>

\* The scan with the match taken from the head of the array instead of the
\* entry that matched (all_metrics->update_function for info->update_function).
find_update_function_first(metric_name, k) ==
    IF \E j \in k..Len(all_metrics) : all_metrics[j].name = metric_name
    THEN all_metrics[1].update_function
    ELSE NULL

\* The inner for loop of start_metrics_monitoring: linear scan from entry k,
\* first exact match wins, NULL when the terminator is reached.
RECURSIVE find_update_function(_, _)
find_update_function(metric_name, k) ==
    IF k > Len(all_metrics) THEN NULL
    ELSE IF metric_name = all_metrics[k].name
         THEN all_metrics[k].update_function
         ELSE find_update_function(metric_name, k + 1)

\* The same scan over any sentinel-terminated array of entries: the callback
\* of the first entry whose name matches, whatever it is, NULL at the sentinel.
RECURSIVE scan(_, _)
scan(info, metric_name) ==
    IF info = <<>> THEN NULL
    ELSE IF metric_name = Head(info).name
         THEN Head(info).update_function
         ELSE scan(Tail(info), metric_name)

\* ------------------------------------------------------------ status

Status(msg, metric) == [msg |-> msg, metric |-> metric]

NO_STATUS == Status("", <<>>)
STATUS_STARTING == Status("Starting monitoring from FIFO", <<>>)
STATUS_THREAD_ERROR == Status("Error creating HTTP server thread", <<>>)
STATUS_STARTED == Status("Metrics monitoring started", <<>>)
\* snprintf(status_message, ..., "Error: No update function found for metric '%s'", metric_name)
status_message(metric_name) ==
    Status("Error: No update function found for metric", metric_name)

\* ------------------------------------------------------------ inputs

\* What a writer puts into the pipe: comma-separated fields, each a word
\* with optional whitespace on both sides.
spaced == <<"c", " ", "u">>
Words == {cpu, memory, disk, one, spaced, <<>>}
PaddedWords == {cpu, spaced, <<>>}

bare(w) == [lead |-> <<>>, word |-> w, trail |-> <<>>]
padded(w) == [lead |-> <<" ">>, word |-> w, trail |-> <<"\n">>]

Field == { bare(w) : w \in Words } \cup { padded(w) : w \in PaddedWords }

field_text(f) == f.lead \o f.word \o f.trail

RECURSIVE Join(_)
Join(fs) ==
    IF fs = <<>> THEN <<>>
    ELSE IF Len(fs) = 1 THEN field_text(fs[1])
    ELSE field_text(fs[1]) \o <<comma>> \o Join(Tail(fs))

\* Payloads of more than MAX_METRICS fields: all of them cpu, or with one
\* other name (unregistered disk, registered memory) at position p.
LongInputs ==
    { [k \in 1..(MAX_METRICS + 1) |-> IF k = p THEN bare(w) ELSE bare(cpu)] :
        p \in {0, MAX_METRICS, MAX_METRICS + 1}, w \in {disk, memory} }

\* A payload of exactly MAX_METRICS fields, every second one padded.
FullInput ==
    [k \in 1..MAX_METRICS |->
        IF k % 2 = 0 THEN padded(spaced) ELSE bare(memory)]

\* Payloads of more than MAX_METRICS fields with one field that is empty or
\* holds nothing but whitespace, in front or in the last accepted position.
BlankInputs ==
    { [k \in 1..(MAX_METRICS + 1) |-> IF k = p THEN f ELSE bare(cpu)] :
        p \in {1, MAX_METRICS}, f \in {bare(<<>>), padded(<<>>)} }

Inputs ==
    (UNION { [1..n -> Field] : n \in 0..MaxFields })
        \cup LongInputs \cup BlankInputs \cup {FullInput}

\* ------------------------------------------------------------ state

VARIABLES
    pc,               \* position of the main flow
    fifo_exists,      \* FIFO_PATH names a node of the file system
    fifo_mode,        \* its permission bits (0 when it does not exist)
    fifo_file,        \* the FILE* of start_monitoring_from_fifo
    fields,           \* the fields the writer sent (what the payload was built from)
    buffer,           \* buffer[0..bytesRead-1] of start_monitoring_from_fifo
    reads,            \* number of fread calls on the channel
    selected_metrics, \* the tokens parse_metrics stored
    i,                \* the loop index of start_metrics_monitoring (1-based)
    update_functions, \* the entries of update_functions[] assigned so far
    init_metrics_arg, \* the selections init_metrics was called with, in order
    thread_attempts,  \* number of pthread_create calls
    thread_created,   \* pthread_create returned 0
    status_file,      \* content of STATUS_FILE
    status_calls,     \* the update_status calls made, in order
    shown,            \* number of show_available_metrics calls
    calls,            \* callbacks invoked in the current (or last finished) cycle
    null_slots,       \* a NULL slot was met inside the loop
    cycles,           \* finished cycles (saturating at MaxCycles)
    exit_code         \* exit status of the process, or NULL while it runs

vars == << pc, fifo_exists, fifo_mode, fifo_file, fields, buffer, reads,
           selected_metrics, i, update_functions, init_metrics_arg,
           thread_attempts, thread_created, status_file, status_calls, shown,
           calls, null_slots, cycles, exit_code >>

num_metrics == Len(selected_metrics)
bytesRead == Len(buffer)

\* Permission bits a node left at FIFO_PATH by someone else may have (0600).
OtherModes == {384}

Init ==
    /\ pc = "main"
    /\ \E pre \in {0, FIFO_MODE} \cup OtherModes :
          /\ fifo_exists = (pre # 0)
          /\ fifo_mode = pre
    /\ fifo_file = NULL
    /\ fields = <<>>
    /\ buffer = <<>>
    /\ reads = 0
    /\ selected_metrics = <<>>
    /\ i = 0
    /\ update_functions = <<>>
    /\ init_metrics_arg = <<>>
    /\ thread_attempts = 0
    /\ thread_created = FALSE
    /\ status_file = NO_STATUS
    /\ status_calls = <<>>
    /\ shown = 0
    /\ calls = <<>>
    /\ null_slots = FALSE
    /\ cycles = 0
    /\ exit_code = NULL

\* ------------------------------------------------------------ operations

\* update_status with a failed fopen that leaves the file empty instead of
\* untouched.
update_status_clobbers(status, opened) ==
    /\ status_file' = IF opened THEN status ELSE NO_STATUS
    /\ status_calls' = Append(status_calls, [status |-> status, opened |-> opened])

\* update_status: fopen(STATUS_FILE, "w") truncates and rewrites the file;
\* when it fails (opened = FALSE) the file is left as it was.
update_status(status, opened) ==
    /\ status_file' = IF opened THEN status ELSE status_file
    /\ status_calls' = Append(status_calls, [status |-> status, opened |-> opened])

\* main up to the call of start_monitoring_from_fifo.
main ==
    /\ pc = "main"
    /\ shown' = shown + 1
    /\ \E opened \in BOOLEAN : update_status(STATUS_STARTING, opened)
    /\ pc' = "mkfifo"
    /\ UNCHANGED << fifo_exists, fifo_mode, fifo_file, fields, buffer, reads,
                    selected_metrics, i, update_functions, init_metrics_arg,
                    thread_attempts, thread_created, calls, null_slots, cycles,
                    exit_code >>

\* perror without the exit that follows it: the flow goes on to the fopen.
exit_failure_ignored ==
    /\ pc' = "fopen"
    /\ UNCHANGED exit_code

\* exit(EXIT_FAILURE)
exit_failure ==
    /\ pc' = "exited"
    /\ exit_code' = EXIT_FAILURE

\* The test without its second half: every failure of mkfifo is fatal.
mkfifo_fatal_any(result) == result # "created"

\* mkfifo(...) == -1 && errno != EEXIST
mkfifo_fatal(result) == result = "error"

\* mkfifo(FIFO_PATH, 0666): creates the node, or fails with EEXIST when it is
\* there already (not an error), or fails otherwise (fatal).
mkfifo ==
    /\ pc = "mkfifo"
    /\ \E result \in {"created", "EEXIST", "error"} :
          /\ result = "created" => ~fifo_exists
          /\ result = "EEXIST" => fifo_exists
          /\ result = "error" => ~fifo_exists
          /\ IF mkfifo_fatal(result)
             THEN exit_failure /\ UNCHANGED << fifo_exists, fifo_mode >>
             ELSE /\ pc' = "fopen"
                  /\ fifo_exists' = TRUE
                  /\ fifo_mode' = IF result = "created" THEN FIFO_MODE ELSE fifo_mode
                  /\ UNCHANGED exit_code
    /\ UNCHANGED << fifo_file, fields, buffer, reads, selected_metrics, i,
                    update_functions, init_metrics_arg, thread_attempts,
                    thread_created, status_file, status_calls, shown, calls,
                    null_slots, cycles >>

\* fopen(FIFO_PATH, "r"): a NULL result is fatal.
fopen_fifo ==
    /\ pc = "fopen"
    /\ \E opened \in BOOLEAN :
          IF opened
          THEN /\ fifo_file' = "open"
               /\ pc' = "fread"
               /\ UNCHANGED exit_code
          ELSE exit_failure /\ UNCHANGED fifo_file
    /\ UNCHANGED << fifo_exists, fifo_mode, fields, buffer, reads,
                    selected_metrics, i, update_functions, init_metrics_arg,
                    thread_attempts, thread_created, status_file, status_calls,
                    shown, calls, null_slots, cycles >>

\* The list command recognised only when "1" is the whole selection.
is_list_command_alone(metrics) == metrics = <<one>>

\* num_metrics > 0 && strcmp(selected_metrics[0], "1") == 0
is_list_command(metrics) == Len(metrics) > 0 /\ metrics[1] = one

\* Monitoring started for a selection without names.
starts_monitoring_always(metrics) == TRUE

\* if (num_metrics > 0) start_metrics_monitoring(selected_metrics, num_metrics);
starts_monitoring(metrics) == Len(metrics) > 0

\* The single fread of the channel, the parse of what it returned and the
\* branch taken on the tokens. A failed or empty read leaves bytesRead = 0.
fread ==
    /\ pc = "fread"
    /\ reads' = reads + 1
    /\ \E fs \in Inputs, failed \in BOOLEAN :
          /\ fields' = IF failed THEN <<>> ELSE fs
          /\ buffer' = IF failed THEN <<>>
                       ELSE SubSeq(Join(fs), 1, Min(Len(Join(fs)), BUFFER_SIZE - 1))
    /\ selected_metrics' = IF Len(buffer') > 0
                           THEN parse_metrics(buffer', MAX_METRICS)
                           ELSE <<>>
    /\ pc' = IF is_list_command(selected_metrics')
             THEN "list"
             ELSE IF starts_monitoring(selected_metrics') THEN "init_metrics"
             ELSE "cleanup"
    /\ UNCHANGED << fifo_exists, fifo_mode, fifo_file, i, update_functions,
                    init_metrics_arg, thread_attempts, thread_created,
                    status_file, status_calls, shown, calls, null_slots, cycles,
                    exit_code >>

\* fclose(fifo_file); unlink(FIFO_PATH);
close_and_unlink ==
    /\ fifo_file' = "closed"
    /\ fifo_exists' = FALSE
    /\ fifo_mode' = 0

\* The list command: first token "1".
list_available ==
    /\ pc = "list"
    /\ shown' = shown + 1
    /\ close_and_unlink
    /\ pc' = "return"
    /\ UNCHANGED << fields, buffer, reads, selected_metrics, i, update_functions,
                    init_metrics_arg, thread_attempts, thread_created,
                    status_file, status_calls, calls, null_slots, cycles,
                    exit_code >>

\* init_metrics called with the names that have an update function only.
init_metrics_validated ==
    /\ pc = "init_metrics"
    /\ init_metrics_arg' =
          Append(init_metrics_arg,
                 SelectSeq(selected_metrics,
                           LAMBDA name : find_update_function(name, 1) # NULL))
    /\ pc' = "create_threads"
    /\ UNCHANGED << fifo_exists, fifo_mode, fifo_file, fields, buffer, reads,
                    selected_metrics, i, update_functions, thread_attempts,
                    thread_created, status_file, status_calls, shown, calls,
                    null_slots, cycles, exit_code >>

\* start_metrics_monitoring, first statement: init_metrics(selected_metrics, num_metrics).
init_metrics ==
    /\ pc = "init_metrics"
    /\ init_metrics_arg' = Append(init_metrics_arg, selected_metrics)
    /\ pc' = "create_threads"
    /\ UNCHANGED << fifo_exists, fifo_mode, fifo_file, fields, buffer, reads,
                    selected_metrics, i, update_functions, thread_attempts,
                    thread_created, status_file, status_calls, shown, calls,
                    null_slots, cycles, exit_code >>

\* create_threads with a failure that ends start_metrics_monitoring: the
\* caller returns instead of going on with the resolution.
create_threads_checked ==
    /\ pc = "create_threads"
    /\ thread_attempts' = thread_attempts + 1
    /\ \E created \in BOOLEAN :
          /\ thread_created' = created
          /\ IF created
             THEN /\ UNCHANGED << status_file, status_calls >>
                  /\ pc' = "resolve"
             ELSE /\ \E opened \in BOOLEAN : update_status(STATUS_THREAD_ERROR, opened)
                  /\ pc' = "cleanup"
    /\ i' = 1
    /\ update_functions' = <<>>
    /\ UNCHANGED << fifo_exists, fifo_mode, fifo_file, fields, buffer, reads,
                    selected_metrics, init_metrics_arg, shown, calls, null_slots,
                    cycles, exit_code >>

\* create_threads: on a pthread_create failure the status is written and the
\* function returns to its caller, which goes on with the resolution.
create_threads ==
    /\ pc = "create_threads"
    /\ thread_attempts' = thread_attempts + 1
    /\ \E created \in BOOLEAN :
          /\ thread_created' = created
          /\ IF created
             THEN UNCHANGED << status_file, status_calls >>
             ELSE \E opened \in BOOLEAN : update_status(STATUS_THREAD_ERROR, opened)
    /\ i' = 1
    /\ update_functions' = <<>>
    /\ pc' = "resolve"
    /\ UNCHANGED << fifo_exists, fifo_mode, fifo_file, fields, buffer, reads,
                    selected_metrics, init_metrics_arg, shown, calls, null_slots,
                    cycles, exit_code >>

\* The check for a name without update function left out.
unresolved_never(fn) == FALSE

\* if (update_functions[i] == NULL): no entry of the registry matched.
unresolved(fn) == fn = NULL

\* The for loop ended one entry early (i < num_metrics - 1).
for_done_early(index, n) == index >= n

\* The condition that ends a for loop over the num_metrics entries.
for_done(index, n) == index > n

\* The outer for loop of start_metrics_monitoring as a whole, over any
\* registry: the slots assigned, and whether a NULL slot ended the function
\* before update_status("Metrics monitoring started").
RECURSIVE dispatch(_, _, _)
dispatch(registry, metrics, table) ==
    IF Len(table) = Len(metrics)
    THEN [failed |-> FALSE, table |-> table]
    ELSE LET fn == scan(registry, metrics[Len(table) + 1])
         IN  IF unresolved(fn)
             THEN [failed |-> TRUE, table |-> Append(table, fn)]
             ELSE dispatch(registry, metrics, Append(table, fn))

\* The outer for loop going on to the next name after an unresolved one
\* (continue for return), ending the function only when the last name failed.
resolve_metric_all ==
    /\ pc = "resolve"
    /\ i <= num_metrics
    /\ LET metric_name == selected_metrics[i]
           fn == find_update_function(metric_name, 1)
       IN  /\ update_functions' = Append(update_functions, fn)
           /\ IF fn = NULL
              THEN /\ \E opened \in BOOLEAN :
                         update_status(status_message(metric_name), opened)
                   /\ pc' = IF i < num_metrics THEN "resolve" ELSE "cleanup"
                   /\ i' = IF i < num_metrics THEN i + 1 ELSE i
              ELSE /\ i' = i + 1
                   /\ UNCHANGED << pc, status_file, status_calls >>
    /\ UNCHANGED << fifo_exists, fifo_mode, fifo_file, fields, buffer, reads,
                    selected_metrics, init_metrics_arg, thread_attempts,
                    thread_created, shown, calls, null_slots, cycles, exit_code >>

\* One pass of the outer for loop of start_metrics_monitoring: look up
\* selected_metrics[i]; a name without update function ends the function.
resolve_metric ==
    /\ pc = "resolve"
    /\ ~for_done(i, num_metrics)
    /\ LET metric_name == selected_metrics[i]
           fn == find_update_function(metric_name, 1)
       IN  /\ update_functions' = Append(update_functions, fn)
           /\ IF unresolved(fn)
              THEN /\ \E opened \in BOOLEAN :
                         update_status(status_message(metric_name), opened)
                   /\ pc' = "cleanup"
                   /\ UNCHANGED i
              ELSE /\ i' = i + 1
                   /\ UNCHANGED << pc, status_file, status_calls >>
    /\ UNCHANGED << fifo_exists, fifo_mode, fifo_file, fields, buffer, reads,
                    selected_metrics, init_metrics_arg, thread_attempts,
                    thread_created, shown, calls, null_slots, cycles, exit_code >>

\* The loop entered without the update_status call in front of it.
monitoring_started_unreported ==
    /\ pc = "resolve"
    /\ i > num_metrics
    /\ pc' = "loop"
    /\ i' = 1
    /\ UNCHANGED << fifo_exists, fifo_mode, fifo_file, fields, buffer, reads,
                    selected_metrics, update_functions, init_metrics_arg,
                    thread_attempts, thread_created, status_file, status_calls,
                    shown, calls, null_slots, cycles, exit_code >>

\* Every name resolved: update_status("Metrics monitoring started") and the
\* while (true) loop is entered.
monitoring_started ==
    /\ pc = "resolve"
    /\ for_done(i, num_metrics)
    /\ \E opened \in BOOLEAN : update_status(STATUS_STARTED, opened)
    /\ pc' = "loop"
    /\ i' = 1
    /\ UNCHANGED << fifo_exists, fifo_mode, fifo_file, fields, buffer, reads,
                    selected_metrics, update_functions, init_metrics_arg,
                    thread_attempts, thread_created, shown, calls, null_slots,
                    cycles, exit_code >>

\* One pass of the inner for loop of the monitoring loop: call slot i, or
\* report it when it is NULL. The first call of a cycle starts the record anew.
invoke ==
    /\ pc = "loop"
    /\ ~for_done(i, num_metrics)
    /\ LET done == IF i = 1 THEN <<>> ELSE calls
       IN  IF update_functions[i] # NULL
           THEN /\ calls' = Append(done, update_functions[i])
                /\ UNCHANGED null_slots
           ELSE /\ calls' = done
                /\ null_slots' = TRUE
    /\ i' = i + 1
    /\ UNCHANGED << pc, fifo_exists, fifo_mode, fifo_file, fields, buffer, reads,
                    selected_metrics, update_functions, init_metrics_arg,
                    thread_attempts, thread_created, status_file, status_calls,
                    shown, cycles, exit_code >>

\* A loop that ends after one cycle (the cycle not wrapped in while (true)).
sleep_once ==
    /\ pc = "loop"
    /\ i > num_metrics
    /\ cycles' = Min(cycles + 1, MaxCycles)
    /\ pc' = "cleanup"
    /\ UNCHANGED << i, fifo_exists, fifo_mode, fifo_file, fields, buffer, reads,
                    selected_metrics, update_functions, init_metrics_arg,
                    thread_attempts, thread_created, status_file, status_calls,
                    shown, calls, null_slots, exit_code >>

\* sleep(SLEEP_TIME) at the end of a cycle, then the next cycle.
sleep ==
    /\ pc = "loop"
    /\ for_done(i, num_metrics)
    /\ cycles' = Min(cycles + 1, MaxCycles)
    /\ i' = 1
    /\ UNCHANGED << pc, fifo_exists, fifo_mode, fifo_file, fields, buffer, reads,
                    selected_metrics, update_functions, init_metrics_arg,
                    thread_attempts, thread_created, status_file, status_calls,
                    shown, calls, null_slots, exit_code >>

\* The end of start_monitoring_from_fifo without the unlink.
cleanup_keeps_fifo ==
    /\ pc = "cleanup"
    /\ fifo_file' = "closed"
    /\ pc' = "return"
    /\ UNCHANGED << fifo_exists, fifo_mode, fields, buffer, reads,
                    selected_metrics, i, update_functions, init_metrics_arg,
                    thread_attempts, thread_created, status_file, status_calls,
                    shown, calls, null_slots, cycles, exit_code >>

\* The end of start_monitoring_from_fifo after start_metrics_monitoring
\* returned, after a payload without tokens, or after an empty read.
cleanup ==
    /\ pc = "cleanup"
    /\ close_and_unlink
    /\ pc' = "return"
    /\ UNCHANGED << fields, buffer, reads, selected_metrics, i, update_functions,
                    init_metrics_arg, thread_attempts, thread_created,
                    status_file, status_calls, shown, calls, null_slots, cycles,
                    exit_code >>

\* return EXIT_SUCCESS; of main.
main_return ==
    /\ pc = "return"
    /\ pc' = "exited"
    /\ exit_code' = EXIT_SUCCESS
    /\ UNCHANGED << fifo_exists, fifo_mode, fifo_file, fields, buffer, reads,
                    selected_metrics, i, update_functions, init_metrics_arg,
                    thread_attempts, thread_created, status_file, status_calls,
                    shown, calls, null_slots, cycles >>

Next ==
    \/ main
    \/ mkfifo
    \/ fopen_fifo
    \/ fread
    \/ list_available
    \/ init_metrics
    \/ create_threads
    \/ resolve_metric
    \/ monitoring_started
    \/ invoke
    \/ sleep
    \/ cleanup
    \/ main_return

Spec == Init /\ [][Next]_vars

\* The steps of the main flow that do not wait for anyone else. Opening and
\* reading the pipe block until a writer appears, so they are not among them.
Run ==
    \/ main
    \/ mkfifo
    \/ list_available
    \/ init_metrics
    \/ create_threads
    \/ resolve_metric
    \/ monitoring_started
    \/ invoke
    \/ sleep
    \/ cleanup
    \/ main_return

\* The main flow is one sequential thread of control that the scheduler keeps
\* running: whenever it has a step that does not block, it eventually takes it.
FairSpec == Spec /\ WF_vars(Run)

\* ------------------------------------------------------------ vocabulary of the claims

\* The name is one of the registry's names (exact match of every character).
Registered(name) == \E k \in 1..Len(all_metrics) : all_metrics[k].name = name

\* The callback the registry holds under a registered name.
RegisteredCallback(name) ==
    (CHOOSE e \in { all_metrics[k] : k \in 1..Len(all_metrics) } : e.name = name).update_function

\* Some update callback has been invoked.
EverInvoked == calls # <<>> \/ cycles > 0

\* A payload has been read and parsed into at least one token that is not
\* the list command: the tokens are requested metric names.
DispatchRequested == num_metrics > 0 /\ selected_metrics[1] # one

Unresolved == { k \in 1..num_metrics : ~Registered(selected_metrics[k]) }

FirstUnresolved == CHOOSE k \in Unresolved : \A j \in Unresolved : k <= j

\* start_metrics_monitoring has returned (or the dispatch was never entered).
AfterDispatch == pc \in {"cleanup", "return", "exited"}

LastStatusCall == status_calls[Len(status_calls)]

\* The content of the status file after a sequence of update_status calls.
RECURSIVE Written(_)
Written(cs) ==
    IF cs = <<>> THEN NO_STATUS
    ELSE IF cs[Len(cs)].opened THEN cs[Len(cs)].status
    ELSE Written(SubSeq(cs, 1, Len(cs) - 1))

\* ------------------------------------------------------------ C1

\* C1 as stated: for a payload (first token not "1") with a requested name
\* that is not registered, no callback is ever invoked, the loop is never
\* entered, and once the dispatch has failed the status file holds the
\* message naming that metric.
C1_FailClosed_AsStated ==
    \A k \in 1..num_metrics :
        (DispatchRequested /\ ~Registered(selected_metrics[k])) =>
            /\ ~EverInvoked
            /\ pc # "loop"
            /\ AfterDispatch => status_file = status_message(selected_metrics[k])

\* C1 as amended: with an unregistered name among the accepted tokens, no
\* callback is ever invoked and the loop is never entered; once the dispatch
\* has failed, the last update_status call carried the message naming the
\* first unregistered name, it was the only call made for the failure, and
\* the status file holds that message whenever the file could be opened
\* (otherwise it keeps its previous content).
C1_FailClosed ==
    (DispatchRequested /\ Unresolved # {}) =>
        /\ ~EverInvoked
        /\ pc # "loop"
        /\ null_slots = FALSE
        /\ AfterDispatch =>
              /\ LastStatusCall.status = status_message(selected_metrics[FirstUnresolved])
              /\ LastStatusCall.opened =>
                    status_file = status_message(selected_metrics[FirstUnresolved])
              /\ status_file = Written(status_calls)

\* Witness of C1: a payload whose first name resolved and whose second did
\* not, after the dispatch failed and the process ended.
C1_Witness ==
    /\ pc = "exited"
    /\ DispatchRequested
    /\ num_metrics >= 2
    /\ FirstUnresolved = 2
    /\ thread_created
    /\ status_file = status_message(selected_metrics[2])

\* ------------------------------------------------------------ C2

\* C2: when every token is a registered name, the dispatch table built by
\* the resolution has one entry per token, and entry k is the callback
\* registered under token k (order kept, duplicates kept).
C2_DispatchTable ==
    (DispatchRequested /\ Unresolved = {} /\ init_metrics_arg # <<>>) =>
        /\ pc = "resolve" => Len(update_functions) = i - 1
        /\ pc = "loop" => Len(update_functions) = num_metrics
        /\ \A k \in 1..Len(update_functions) :
              update_functions[k] = RegisteredCallback(selected_metrics[k])

\* Witness of C2: a completed table for a selection with a repeated name and
\* a second, different name.
C2_Witness ==
    /\ pc = "loop"
    /\ num_metrics = 3
    /\ selected_metrics[1] = selected_metrics[3]
    /\ selected_metrics[1] # selected_metrics[2]
    /\ update_functions[1] = update_functions[3]
    /\ update_functions[1] # update_functions[2]

\* ------------------------------------------------------------ C3

\* C3 as stated: a callback is invoked only after the exposition thread has
\* been started successfully.
C3_ThreadBeforeUpdates == EverInvoked => thread_created

\* ------------------------------------------------------------ C4

\* C4: when the first parsed token is "1", no exposition thread is started,
\* init_metrics is not called, no callback is invoked, the loop is never
\* entered and the status file is written only by the initial call; once the
\* command has been handled the registry has been listed a second time and
\* the channel is closed and removed.
C4_ListCommand ==
    (num_metrics > 0 /\ selected_metrics[1] = one) =>
        /\ pc \in {"list", "return", "exited"}
        /\ thread_attempts = 0
        /\ ~thread_created
        /\ init_metrics_arg = <<>>
        /\ update_functions = <<>>
        /\ ~EverInvoked
        /\ Len(status_calls) = 1
        /\ status_calls[1].status = STATUS_STARTING
        /\ status_file = Written(status_calls)
        /\ pc \in {"return", "exited"} =>
              /\ shown = 2
              /\ fifo_file = "closed"
              /\ ~fifo_exists
        /\ pc = "exited" => exit_code = EXIT_SUCCESS

\* Witness of C4: the list command followed by further tokens, handled.
C4_Witness ==
    /\ pc = "exited"
    /\ num_metrics = 3
    /\ selected_metrics[1] = one
    /\ selected_metrics[2] = cpu
    /\ ~Registered(selected_metrics[3])
    /\ shown = 2
    /\ fifo_file = "closed"

\* ------------------------------------------------------------ C5

\* In the running loop the callbacks invoked in the current cycle are the
\* entries before the loop index, in table order.
C5_CycleState ==
    pc = "loop" =>
        /\ i \in 1..(num_metrics + 1)
        /\ i > 1 => calls = SubSeq(update_functions, 1, i - 1)
        /\ (i = 1 /\ cycles > 0) => calls = update_functions
        /\ (i = 1 /\ cycles = 0) => calls = <<>>

\* A step of the running loop invokes the entry at the index and moves to
\* the next one, or sleeps when the whole table has been invoked.
C5_CycleStep ==
    (pc = "loop") =>
        \/ /\ i <= num_metrics
           /\ i' = i + 1
           /\ calls' = SubSeq(update_functions, 1, i)
           /\ cycles' = cycles
        \/ /\ i = num_metrics + 1
           /\ calls = update_functions
           /\ i' = 1
           /\ calls' = calls
           /\ cycles' = Min(cycles + 1, MaxCycles)

\* C5: once the loop is running, every cycle invokes every entry of the
\* dispatch table exactly once and in table order, and the loop sleeps and
\* begins the next cycle only after the last entry has been invoked.
C5_EveryEntryOncePerCycle == []C5_CycleState /\ [][C5_CycleStep]_vars

\* Witness of C5: a second cycle under way over a table of three entries.
C5_Witness ==
    /\ pc = "loop"
    /\ cycles = 1
    /\ num_metrics = 3
    /\ i = 3
    /\ calls = SubSeq(update_functions, 1, 2)
    /\ update_functions[1] # update_functions[2]

\* ------------------------------------------------------------ C6

\* Slot k of the table has just been invoked.
JustInvoked(k) ==
    /\ pc = "loop"
    /\ i = k + 1
    /\ Len(calls) = k
    /\ calls[k] = update_functions[k]

\* C6: once the loop is entered the main flow never leaves it and the
\* process never exits; with a fair scheduler every entry of the table is
\* invoked infinitely often.
C6_RunningForever ==
    /\ [][pc = "loop" => (pc' = "loop" /\ exit_code' = NULL)]_vars
    /\ \A k \in 1..MAX_METRICS :
          []<>(~(pc = "loop" /\ k <= num_metrics) \/ JustInvoked(k))

\* Witness of C6: the loop still at work over two entries after as many
\* finished cycles as the counter records.
C6_Witness ==
    /\ pc = "loop"
    /\ cycles = MaxCycles
    /\ num_metrics = 2
    /\ JustInvoked(2)
    /\ exit_code = NULL

\* ------------------------------------------------------------ C7

\* C7 as stated: whenever a payload has been consumed from the pipe, the
\* channel is eventually closed and removed.
C7_ChannelReleased ==
    (reads = 1 /\ bytesRead > 0) ~> (fifo_file = "closed" /\ ~fifo_exists)

\* ------------------------------------------------------------ C8

\* C8 as stated: in every state of the running loop the status file reads
\* "Metrics monitoring started".
C8_StartedStatus_AsStated == pc = "loop" => status_file = STATUS_STARTED

StartedCalls == { k \in 1..Len(status_calls) : status_calls[k].status = STATUS_STARTED }

C8_StartedState ==
    /\ pc = "loop" =>
          /\ LastStatusCall.status = STATUS_STARTED
          /\ Cardinality(StartedCalls) = 1
          /\ LastStatusCall.opened => status_file = STATUS_STARTED
          /\ status_file = Written(status_calls)
    /\ pc # "loop" => StartedCalls = {}

C8_StartedStep ==
    /\ (status_calls' # status_calls /\ status_calls'[Len(status_calls')].status = STATUS_STARTED) =>
          /\ pc = "resolve" /\ pc' = "loop"
          /\ Len(update_functions) = num_metrics
          /\ \A k \in 1..num_metrics : update_functions[k] # NULL
          /\ ~EverInvoked
          /\ ~EverInvoked'
    /\ pc = "loop" => UNCHANGED << status_file, status_calls >>

\* C8 as amended: on a successful dispatch update_status("Metrics monitoring
\* started") is called exactly once, after every token has been resolved and
\* before the first callback invocation, and no update_status call follows
\* it; in every state of the running loop the status file reads "Metrics
\* monitoring started" if that call could open the file, and otherwise keeps
\* the content it had before.
C8_StartedStatus == []C8_StartedState /\ [][C8_StartedStep]_vars

\* Witness of C8: the loop at work with the started status in the file.
C8_Witness ==
    /\ pc = "loop"
    /\ cycles >= 1
    /\ status_file = STATUS_STARTED
    /\ Len(status_calls) = 3

\* ------------------------------------------------------------ C9

\* The payload is well formed: between 1 and MAX_METRICS fields, each with a
\* non-empty word (words hold no comma and neither start nor end with
\* whitespace).
WellFormed(fs) == Len(fs) \in 1..MAX_METRICS /\ \A k \in 1..Len(fs) : fs[k].word # <<>>

\* C9: parsing a well-formed payload of N <= MAX_METRICS fields yields the N
\* words of the fields, in order, without the whitespace around them and
\* with their interior unchanged.
C9_ParseTrims ==
    (reads = 1 /\ WellFormed(fields)) =>
        /\ buffer = Join(fields)
        /\ selected_metrics = [k \in 1..Len(fields) |-> fields[k].word]

\* Witness of C9: three fields, two of them padded, one with whitespace
\* inside the word.
C9_Witness ==
    /\ reads = 1
    /\ fields = <<padded(cpu), padded(spaced), bare(disk)>>
    /\ buffer = <<" ", "c", "p", "u", "\n", ",", " ", "c", " ", "u", "\n", ",",
                  "d", "i", "s", "k">>
    /\ selected_metrics = <<cpu, spaced, disk>>

\* ------------------------------------------------------------ C10

DispatchFails == DispatchRequested /\ Unresolved # {}

\* C10 as stated: after a dispatch that failed on an unresolved name the
\* process has read the channel once, closed and removed it, exited with
\* EXIT_SUCCESS, and the status file holds the error status.
C10_FailureExit_AsStated ==
    (DispatchFails /\ pc = "exited") =>
        /\ reads = 1
        /\ fifo_file = "closed"
        /\ ~fifo_exists
        /\ exit_code = EXIT_SUCCESS
        /\ status_file = status_message(selected_metrics[FirstUnresolved])

C10_FailureState ==
    DispatchFails =>
        /\ reads = 1
        /\ pc \in {"init_metrics", "create_threads", "resolve", "cleanup", "return", "exited"}
        /\ pc \in {"return", "exited"} => (fifo_file = "closed" /\ ~fifo_exists)
        /\ pc = "exited" =>
              /\ exit_code = EXIT_SUCCESS
              /\ LastStatusCall.status = status_message(selected_metrics[FirstUnresolved])
              /\ LastStatusCall.opened =>
                    status_file = status_message(selected_metrics[FirstUnresolved])
              /\ status_file = Written(status_calls)

\* C10 as amended: after a dispatch that failed on an unresolved name the
\* process does not read the channel again; start_metrics_monitoring
\* returns, the channel is closed and removed and the process terminates
\* with EXIT_SUCCESS; the error status is the last status passed to
\* update_status, and it is the final content of the status file whenever
\* the file could be opened (otherwise the file keeps its previous content).
C10_FailureExit == []C10_FailureState /\ (DispatchFails ~> pc = "exited")

\* Witness of C10: the process ended after a dispatch that failed on the
\* second name, with the error status in the file.
C10_Witness ==
    /\ pc = "exited"
    /\ DispatchFails
    /\ FirstUnresolved = 2
    /\ exit_code = EXIT_SUCCESS
    /\ ~fifo_exists
    /\ status_file = status_message(selected_metrics[2])
    /\ Len(status_calls) = 3

\* ------------------------------------------------------------ C11

\* The step is a mkfifo that failed with an error other than EEXIST (no node
\* before, none after) or an fopen of the pipe that returned NULL.
ChannelFailureStep ==
    \/ pc = "mkfifo" /\ ~fifo_exists /\ ~fifo_exists'
    \/ pc = "fopen" /\ fifo_file' # "open"

C11_FatalStep == ChannelFailureStep => (pc' = "exited" /\ exit_code' = EXIT_FAILURE)

C11_FatalState ==
    exit_code = EXIT_FAILURE =>
        /\ pc = "exited"
        /\ fifo_file = NULL
        /\ reads = 0
        /\ buffer = <<>>
        /\ selected_metrics = <<>>
        /\ init_metrics_arg = <<>>
        /\ thread_attempts = 0
        /\ ~thread_created
        /\ ~EverInvoked
        /\ Len(status_calls) = 1
        /\ status_calls[1].status = STATUS_STARTING
        /\ status_file = Written(status_calls)

\* C11: a mkfifo failure other than EEXIST and a failed fopen of the pipe
\* end the process at once with EXIT_FAILURE; in that execution nothing is
\* read, no thread is started, no callback is invoked, the status file is
\* not written after the initial call, and nothing happens after the exit.
C11_ChannelFailureFatal ==
    /\ [][C11_FatalStep]_vars
    /\ []C11_FatalState
    /\ [][pc = "exited" => UNCHANGED vars]_vars

\* Witness of C11: the process ended by a failed fopen of a pipe that exists.
C11_Witness ==
    /\ pc = "exited"
    /\ exit_code = EXIT_FAILURE
    /\ fifo_exists
    /\ fifo_file = NULL
    /\ Len(status_calls) = 1

\* ------------------------------------------------------------ C12

\* The mkfifo step when the node exists: it goes on to the fopen, as the
\* step that created the node does, and the node keeps its permission bits.
C12_ExistingStep ==
    (pc = "mkfifo" /\ fifo_exists) =>
        /\ pc' = "fopen"
        /\ exit_code' = NULL
        /\ fifo_exists'
        /\ fifo_mode' = fifo_mode

\* After the mkfifo step a run that found the node and a run that created
\* it are at the same place: about to open the pipe, nothing read yet.
C12_SamePlace ==
    pc = "fopen" =>
        /\ fifo_exists
        /\ fifo_file = NULL
        /\ reads = 0
        /\ exit_code = NULL
        /\ fifo_mode \in {FIFO_MODE} \cup OtherModes

\* C12: creating the channel when it already exists is no error: execution
\* goes on to open and read as if the channel had just been created, and the
\* existing channel's permissions are left unchanged.
C12_CreateIdempotent == [][C12_ExistingStep]_vars /\ []C12_SamePlace

\* Witness of C12: a payload read through a pipe that existed before with
\* permissions other than 0666, which it still has.
C12_Witness ==
    /\ pc = "init_metrics"
    /\ reads = 1
    /\ fifo_exists
    /\ fifo_mode \in OtherModes
    /\ fifo_file = "open"

\* ------------------------------------------------------------ C13

\* The step calls update_status.
CallStep == status_calls' # status_calls
NewCall == status_calls'[Len(status_calls')]

\* What a step that calls update_status does to the rest of the state, at
\* each of the four places of the call; none of it depends on whether the
\* file could be opened.
C13_Continuation ==
    /\ pc \in {"main", "create_threads", "resolve"}
    /\ exit_code' = NULL
    /\ UNCHANGED << fifo_exists, fifo_mode, fifo_file, fields, buffer, reads,
                    selected_metrics, init_metrics_arg, calls, null_slots, cycles >>
    /\ pc = "main" =>
          /\ NewCall.status = STATUS_STARTING
          /\ pc' = "mkfifo"
          /\ shown' = shown + 1
          /\ UNCHANGED << i, update_functions, thread_attempts, thread_created >>
    /\ pc = "create_threads" =>
          /\ NewCall.status = STATUS_THREAD_ERROR
          /\ pc' = "resolve"
          /\ thread_attempts' = thread_attempts + 1
          /\ thread_created' = FALSE
          /\ i' = 1
          /\ update_functions' = <<>>
          /\ UNCHANGED shown
    /\ (pc = "resolve" /\ i <= num_metrics) =>
          /\ NewCall.status = status_message(selected_metrics[i])
          /\ pc' = "cleanup"
          /\ update_functions' = Append(update_functions, NULL)
          /\ UNCHANGED << i, thread_attempts, thread_created, shown >>
    /\ (pc = "resolve" /\ i > num_metrics) =>
          /\ NewCall.status = STATUS_STARTED
          /\ pc' = "loop"
          /\ i' = 1
          /\ UNCHANGED << update_functions, thread_attempts, thread_created, shown >>

C13_Step ==
    /\ CallStep =>
          /\ status_calls' = Append(status_calls, NewCall)
          /\ status_file' = IF NewCall.opened THEN NewCall.status ELSE status_file
          /\ C13_Continuation
    /\ ~CallStep => status_file' = status_file

\* The same step, the same continuation, with the file opened or not.
CallWith(opened) == Run /\ CallStep /\ NewCall.opened = opened /\ C13_Continuation

\* The places where the code calls update_status: main, create_threads (when
\* the thread cannot be created), the resolution at a name without update
\* function, and the end of the resolution.
AtCallSite ==
    \/ pc = "main"
    \/ pc = "create_threads"
    \/ pc = "resolve" /\ (i > num_metrics \/ ~Registered(selected_metrics[i]))

C13_BothOutcomes ==
    /\ AtCallSite => (ENABLED CallWith(TRUE) /\ ENABLED CallWith(FALSE))
    /\ ~AtCallSite => ~ENABLED (Run /\ CallStep)

\* C13: a failed update_status is swallowed. Wherever update_status is
\* called, the call may open the file or fail to, and either way the step
\* leaves the rest of the state (position, channel, thread, table, callbacks,
\* exit) as the call's place prescribes; the file holds the status after a
\* call that opened it and is unchanged after one that did not; no other
\* step touches the file.
C13_StatusBestEffort == [][C13_Step]_vars /\ []C13_BothOutcomes

\* Witness of C13: the loop running after every update_status call of the
\* execution failed, the status file never written.
C13_Witness ==
    /\ pc = "loop"
    /\ cycles >= 1
    /\ ~thread_created
    /\ Len(status_calls) = 3
    /\ \A k \in 1..3 : ~status_calls[k].opened
    /\ status_file = NO_STATUS

\* ------------------------------------------------------------ C14

\* The channel has been read and gave nothing to monitor: no byte, or no token.
NothingSelected == reads = 1 /\ num_metrics = 0

\* C14 as stated: after a read without data or a payload without tokens no
\* thread is started, no callback is invoked, the status file holds the
\* initial starting message, and the process ends normally with the channel
\* closed and removed.
C14_NoDataNoOp_AsStated ==
    (NothingSelected /\ pc = "exited") =>
        /\ thread_attempts = 0
        /\ ~EverInvoked
        /\ status_file = STATUS_STARTING
        /\ fifo_file = "closed"
        /\ ~fifo_exists
        /\ exit_code = EXIT_SUCCESS

C14_NoOpState ==
    NothingSelected =>
        /\ pc \in {"cleanup", "return", "exited"}
        /\ init_metrics_arg = <<>>
        /\ update_functions = <<>>
        /\ thread_attempts = 0
        /\ ~thread_created
        /\ ~EverInvoked
        /\ Len(status_calls) = 1
        /\ status_calls[1].status = STATUS_STARTING
        /\ status_calls[1].opened => status_file = STATUS_STARTING
        /\ status_file = Written(status_calls)
        /\ pc \in {"return", "exited"} => (fifo_file = "closed" /\ ~fifo_exists)
        /\ pc = "exited" => exit_code = EXIT_SUCCESS

\* C14 as amended: when the read of the channel yields no data, or the
\* payload parses to no token, monitoring is a no-op: no exposition thread
\* is started, no callback is invoked, update_status is not called again, so
\* the status file stays as the initial call of main left it (with the
\* starting message whenever that call could open the file), the channel is
\* closed and removed, and the process terminates with EXIT_SUCCESS.
C14_NoDataNoOp == []C14_NoOpState /\ (NothingSelected ~> pc = "exited")

\* Witness of C14: the process ended after a payload of bytes without any
\* token.
C14_Witness ==
    /\ pc = "exited"
    /\ reads = 1
    /\ bytesRead > 0
    /\ num_metrics = 0
    /\ exit_code = EXIT_SUCCESS
    /\ status_file = STATUS_STARTING

\* ------------------------------------------------------------ C15

\* The update_status calls that carried an unresolved-metric message.
ErrorCalls ==
    { k \in 1..Len(status_calls) :
        status_calls[k].status.msg = status_message(<<>>).msg }

\* A payload with several names that are not registered.
SeveralUnresolved == DispatchRequested /\ Cardinality(Unresolved) >= 2

\* C15 as stated: with several unresolved names, once the dispatch has failed
\* the status file holds the error message naming the first of them, and the
\* resolution stopped at that name.
C15_FirstUnresolved_AsStated ==
    (SeveralUnresolved /\ AfterDispatch) =>
        /\ status_file = status_message(selected_metrics[FirstUnresolved])
        /\ Len(update_functions) = FirstUnresolved

\* C15 as amended: with several unresolved names, no name after the first
\* unresolved one is ever looked up; once the dispatch has failed, exactly
\* one update_status call was made for the failure, it was the last call and
\* carried the message naming the first unresolved name, and the status file
\* holds that message whenever that call could open the file (otherwise the
\* file keeps its previous content and is not written for the failure).
C15_FirstUnresolved ==
    SeveralUnresolved =>
        /\ Len(update_functions) <= FirstUnresolved
        /\ i <= FirstUnresolved
        /\ \A k \in ErrorCalls :
              status_calls[k].status = status_message(selected_metrics[FirstUnresolved])
        /\ ~AfterDispatch => ErrorCalls = {}
        /\ AfterDispatch =>
              /\ Len(update_functions) = FirstUnresolved
              /\ update_functions[FirstUnresolved] = NULL
              /\ i = FirstUnresolved
              /\ ErrorCalls = {Len(status_calls)}
              /\ status_file =
                    IF LastStatusCall.opened
                    THEN status_message(selected_metrics[FirstUnresolved])
                    ELSE Written(SubSeq(status_calls, 1, Len(status_calls) - 1))

\* Witness of C15: a payload of three names, the second and the third
\* unregistered and different, after the dispatch failed on the second.
C15_Witness ==
    /\ pc = "exited"
    /\ SeveralUnresolved
    /\ num_metrics = 3
    /\ Unresolved = {2, 3}
    /\ selected_metrics[2] # selected_metrics[3]
    /\ Len(update_functions) = 2
    /\ status_file = status_message(selected_metrics[2])

\* ------------------------------------------------------------ C16

\* The tokens of the payload that was read, limit or no limit.
PayloadTokens == all_tokens(buffer)

\* The tokens that the limit of MAX_METRICS lets through.
Accepted == SubSeq(PayloadTokens, 1, Min(Len(PayloadTokens), MAX_METRICS))

\* The payload had more tokens than are accepted.
TooManyTokens == reads = 1 /\ Len(PayloadTokens) > MAX_METRICS

\* C16: at most MAX_METRICS tokens are accepted per payload. Of a payload
\* with more tokens exactly the first MAX_METRICS are stored, handed to
\* init_metrics and resolved; the rest is dropped without any trace: no
\* status is written for it, the dispatch fails only on an unregistered name
\* among the first MAX_METRICS, and the callbacks invoked are those of the
\* first MAX_METRICS names, so a name in a later position is never monitored.
C16_TokenLimit ==
    /\ num_metrics <= MAX_METRICS
    /\ Len(update_functions) <= MAX_METRICS
    /\ reads = 1 => selected_metrics = Accepted
    /\ TooManyTokens =>
          /\ num_metrics = MAX_METRICS
          /\ \A k \in 1..Len(init_metrics_arg) : init_metrics_arg[k] = Accepted
          /\ \A k \in 1..Len(update_functions) :
                update_functions[k] = find_update_function(PayloadTokens[k], 1)
          /\ \A k \in ErrorCalls :
                \E j \in 1..MAX_METRICS :
                    /\ ~Registered(PayloadTokens[j])
                    /\ status_calls[k].status = status_message(PayloadTokens[j])
          /\ (Accepted[1] # one /\ \A j \in 1..MAX_METRICS : Registered(PayloadTokens[j]))
                => (~AfterDispatch /\ ErrorCalls = {})
          /\ Len(calls) <= MAX_METRICS
          /\ \A k \in 1..Len(calls) : calls[k] = RegisteredCallback(PayloadTokens[k])

\* Witness of C16: a payload of MAX_METRICS registered names followed by an
\* unregistered one, with the loop running and a cycle of MAX_METRICS calls
\* finished.
C16_Witness ==
    /\ pc = "loop"
    /\ TooManyTokens
    /\ ~Registered(PayloadTokens[MAX_METRICS + 1])
    /\ cycles >= 1
    /\ Len(calls) = MAX_METRICS
    /\ ErrorCalls = {}

\* ------------------------------------------------------------ C17

\* Registries with an entry whose callback is NULL: all_metrics with one
\* callback taken out, or with such an entry for another name in front of
\* the sentinel.
NullRegistries ==
    { [k \in 1..Len(all_metrics) |->
          IF k = n THEN [name |-> all_metrics[k].name, update_function |-> NULL]
          ELSE all_metrics[k]] : n \in 1..Len(all_metrics) }
    \cup { Append(all_metrics, [name |-> disk, update_function |-> NULL]) }

\* The selection names an entry of the registry whose callback is NULL.
NamesNullEntry(registry, metrics) ==
    \E k \in 1..Len(metrics), n \in 1..Len(registry) :
        /\ registry[n].name = metrics[k]
        /\ registry[n].update_function = NULL

\* C17: while the monitoring loop is running, the dispatch table holds one
\* callback for every selected name and none of them is NULL, so the loop
\* never takes its NULL-slot branch. The resolution is the one the code
\* computes for any registry: a name whose registry entry has a NULL callback
\* gets a NULL slot and ends the dispatch like a name without entry, so no
\* table with a NULL slot ever reaches the loop.
C17_NoNullSlot ==
    /\ null_slots = FALSE
    /\ pc = "loop" =>
          /\ Len(update_functions) = num_metrics
          /\ \A k \in 1..num_metrics : update_functions[k] # NULL
          /\ dispatch(all_metrics, selected_metrics, <<>>) =
                [failed |-> FALSE, table |-> update_functions]
    /\ (DispatchRequested /\ AfterDispatch) =>
          dispatch(all_metrics, selected_metrics, <<>>) =
              [failed |-> TRUE, table |-> update_functions]
    /\ DispatchRequested =>
          \A registry \in NullRegistries :
              LET d == dispatch(registry, selected_metrics, <<>>)
              IN  /\ NamesNullEntry(registry, selected_metrics) => d.failed
                  /\ ~d.failed =>
                        /\ Len(d.table) = num_metrics
                        /\ \A k \in 1..num_metrics : d.table[k] # NULL

\* Witness of C17: the loop running over cpu and memory after a finished
\* cycle; with memory's callback taken out of the registry the same
\* selection ends the dispatch at its second slot.
C17_Witness ==
    /\ pc = "loop"
    /\ cycles >= 1
    /\ selected_metrics = <<cpu, memory>>
    /\ update_functions = <<"update_cpu_gauge", "update_memory_gauge">>
    /\ \E registry \in NullRegistries :
          dispatch(registry, selected_metrics, <<>>) =
              [failed |-> TRUE, table |-> <<"update_cpu_gauge", NULL>>]

\* ------------------------------------------------------------ C18

\* The update_status calls that reported a failed pthread_create.
ThreadErrorCalls ==
    { k \in 1..Len(status_calls) : status_calls[k].status = STATUS_THREAD_ERROR }

ThreadFailed == thread_attempts = 1 /\ ~thread_created

\* The resolution has ended, one way or the other.
ResolutionEnded == pc \in {"loop", "cleanup", "return", "exited"}

\* C19 as stated: once the resolution has ended, the status file does not
\* hold the thread-creation error.
C19_ThreadErrorOverwritten_AsStated ==
    ResolutionEnded => status_file # STATUS_THREAD_ERROR

\* What holds in every state after a failed pthread_create.
C19_ThreadErrorState ==
    ThreadFailed =>
        /\ ThreadErrorCalls = {2}
        /\ pc \in {"resolve", "loop", "cleanup", "return", "exited"}
        /\ pc = "resolve" =>
              /\ Len(status_calls) = 2
              /\ status_calls[2].opened => status_file = STATUS_THREAD_ERROR
        /\ ResolutionEnded =>
              /\ Len(status_calls) = 3
              /\ status_calls[3].status =
                    IF Unresolved = {} THEN STATUS_STARTED
                    ELSE status_message(selected_metrics[FirstUnresolved])
              /\ Unresolved = {} <=> pc = "loop"
              /\ status_calls[3].opened => status_file = status_calls[3].status
              /\ status_file = STATUS_THREAD_ERROR =>
                    (status_calls[2].opened /\ ~status_calls[3].opened)
              /\ status_file = Written(status_calls)

\* C19 as amended: when pthread_create fails, update_status is called with
\* the thread-creation error and the dispatch goes on all the same: the
\* names are resolved and a further update_status call always follows, with
\* the unresolved-metric error or with "Metrics monitoring started". That
\* call overwrites the thread-creation error whenever it can open the status
\* file; the error stays the content of the file only when that last call
\* could not open it.
C19_ThreadErrorOverwritten ==
    /\ []C19_ThreadErrorState
    /\ ThreadFailed ~> (ResolutionEnded /\ Len(status_calls) = 3)

\* Witness of C19: the loop running after a failed pthread_create, the
\* thread-creation error written and then overwritten by the started message.
C19_Witness ==
    /\ pc = "loop"
    /\ cycles >= 1
    /\ ThreadFailed
    /\ status_calls[2] = [status |-> STATUS_THREAD_ERROR, opened |-> TRUE]
    /\ status_file = STATUS_STARTED

\* ------------------------------------------------------------ C20

\* A field without any character, and a field of whitespace only.
IsEmptyField(f) == field_text(f) = <<>>
IsBlankField(f) == field_text(f) # <<>> /\ f.word = <<>>

\* The tokens the fields of a payload stand for: none for an empty field,
\* and for every other field its word without the whitespace around it,
\* which is the empty string for a field of whitespace only.
RECURSIVE FieldTokens(_)
FieldTokens(fs) ==
    IF fs = <<>> THEN <<>>
    ELSE IF IsEmptyField(Head(fs)) THEN FieldTokens(Tail(fs))
    ELSE <<Head(fs).word>> \o FieldTokens(Tail(fs))

\* An accepted token is the empty string.
EmptyTokens == { k \in 1..num_metrics : selected_metrics[k] = <<>> }

\* C20: an empty field (adjacent commas, a comma in front or at the end)
\* yields no token, while a field of whitespace only yields an empty-string
\* token: the accepted tokens are the first MAX_METRICS of the tokens of the
\* non-empty fields, the empty strings among them counted like any other.
\* The empty string is not a registered name, so a selection holding one
\* never reaches the loop: the dispatch fails, at that token unless an
\* earlier name is unresolved too.
C20_EmptyAndBlankFields ==
    /\ ~Registered(<<>>)
    /\ reads = 1 =>
          /\ selected_metrics =
                SubSeq(FieldTokens(fields), 1,
                       Min(Len(FieldTokens(fields)), MAX_METRICS))
          /\ (\A k \in 1..Len(fields) : ~IsBlankField(fields[k])) => EmptyTokens = {}
          /\ (Len(fields) <= MAX_METRICS) =>
                /\ num_metrics =
                      Cardinality({ k \in 1..Len(fields) : ~IsEmptyField(fields[k]) })
                /\ Cardinality(EmptyTokens) =
                      Cardinality({ k \in 1..Len(fields) : IsBlankField(fields[k]) })
    /\ (DispatchRequested /\ EmptyTokens # {}) =>
          /\ EmptyTokens \subseteq Unresolved
          /\ pc # "loop"
          /\ ~EverInvoked
          /\ AfterDispatch =>
                /\ ErrorCalls = {Len(status_calls)}
                /\ FirstUnresolved \in EmptyTokens =>
                      LastStatusCall.status = status_message(<<>>)

\* Witness of C20: a payload of MAX_METRICS + 1 fields whose tenth holds
\* whitespace only: the empty token takes the last accepted place, the
\* eleventh field is dropped, and the dispatch failed on the empty name.
C20_Witness ==
    /\ pc = "exited"
    /\ Len(fields) = MAX_METRICS + 1
    /\ IsBlankField(fields[MAX_METRICS])
    /\ num_metrics = MAX_METRICS
    /\ EmptyTokens = {MAX_METRICS}
    /\ FirstUnresolved = MAX_METRICS
    /\ status_file = status_message(<<>>)

====
